---- MODULE Spec2Model ----
(***************************************************************************)
(* Model of the two backfill scripts of the repository:                    *)
(*   src/backfill_keywords.py          (TMDB keywords -> titles.keywords)  *)
(*   src/backfill_themes_overview.py   (TMDB overview -> titles.overview,  *)
(*                                      Claude themes -> titles.themes)    *)
(* A behaviour is one Python process: the module is loaded (its top-level  *)
(* statements run), then either main() runs (mode "main") or the module's  *)
(* functions are called by an importer (mode "import").                    *)
(*                                                                         *)
(* Python values: Optional[X] is a sequence of length 0 (None) or 1.       *)
(* Text the code trims or splits is a sequence of one-character strings.   *)
(* Keyword names are never inspected by the code and stay TLA+ strings.    *)
(***************************************************************************)
EXTENDS Integers, Sequences, FiniteSets, TLC

\* ------------------------------------------------------------------ bounds
\* Number of rows of the titles table.
NumTitles == 3
\* Largest number of comma-separated candidates in a generated model text.
MaxCands == 6

\* ------------------------------------------------------- program constants
\* main() of backfill_keywords.py: the limits of choices 1, 2 and 3.
LimitChoice1 == 10
LimitChoice2 == 50
LimitChoice3 == 100
\* generate_themes_with_claude: len(t) > 2 and len(t) < 50, themes[:5].
MinThemeLen == 2
MaxThemeLen == 50
MaxThemes == 5

\* ------------------------------------------------------------ Python values
None == <<>>
Some(x) == <<x>>
IsNone(o) == Len(o) = 0
Get(o) == o[1]

Ids == 1..NumTitles

\* ------------------------------------------------------------ text helpers
\* n copies of the character c.
Rep(c, n) == [k \in 1..n |-> c]

\* str.strip() with no argument: leading and trailing whitespace removed.
RECURSIVE LStrip(_)
LStrip(s) ==
    IF Len(s) > 0 /\ Head(s) = " " THEN LStrip(Tail(s)) ELSE s

RECURSIVE RStrip(_)
RStrip(s) ==
    IF Len(s) > 0 /\ s[Len(s)] = " " THEN RStrip(SubSeq(s, 1, Len(s) - 1)) ELSE s

Strip(s) == RStrip(LStrip(s))

\* str.split(","): the pieces between commas; always at least one piece.
RECURSIVE SplitFrom(_, _, _)
SplitFrom(s, start, k) ==
    IF k > Len(s) THEN << SubSeq(s, start, Len(s)) >>
    ELSE IF s[k] = "," THEN << SubSeq(s, start, k - 1) >> \o SplitFrom(s, k + 1, k + 1)
    ELSE SplitFrom(s, start, k + 1)

Split(s) == SplitFrom(s, 1, 1)

\* [f(x) for x in xs if p(x)] for the two comprehensions of lines 113 and 116.
StripAll(xs) == [k \in 1..Len(xs) |-> Strip(xs[k])]

\* themes[:5]-style slice.
Take(xs, n) == SubSeq(xs, 1, IF Len(xs) < n THEN Len(xs) ELSE n)

\* The validity test of line 116 as a faulty variant would write it (>= 2).
ThemeOkLoose(t) == Len(t) > 0 /\ Len(t) >= MinThemeLen /\ Len(t) < MaxThemeLen

\* Line 116: t and len(t) > 2 and len(t) < 50.
ThemeOk(t) == Len(t) > 0 /\ Len(t) > MinThemeLen /\ Len(t) < MaxThemeLen

\* Line 116: the candidates that pass ThemeOk, in their order.
KeepValid(xs) == SelectSeq(xs, ThemeOk)

\* Lines 112-118 of generate_themes_with_claude: the text of the model's first
\* content block to the returned Optional[List[str]].
ParseThemes(text) ==
    LET themes_text == Strip(text)
        themes == KeepValid(StripAll(Split(themes_text)))
    IN IF Len(themes) > 0 THEN Some(Take(themes, MaxThemes)) ELSE None

\* ------------------------------------------------------------- titles table
\* kind column: 'movie' or 'tv' (fetch_tmdb_keywords docstring).
KindOf(id) == IF id % 2 = 1 THEN "movie" ELSE "tv"

\* popularity column, two tables: the spec's example [10, 50, 5] and one with a tie.
PopA == [id \in Ids |-> IF id = 1 THEN 10 ELSE IF id = 2 THEN 50 ELSE 5 * (id - 2)]
PopB == [id \in Ids |-> IF id <= 2 THEN 50 ELSE 5]
PopTables == {PopA, PopB}

\* Values already in the table before the process starts.
OldKeywords == Some(<< "old" >>)
OldOverview == Some(<< "o", "l", "d" >>)
OldThemes == Some(<< << "o", "l", "d" >> >>)

Fields == {"keywords", "overview", "themes"}

\* A row of the titles table: the enrichment fields in `set` hold a value, the
\* others are NULL.
RowOf(id, pop, set) ==
    [kind |-> KindOf(id), popularity |-> pop[id],
     keywords |-> IF "keywords" \in set THEN OldKeywords ELSE None,
     overview |-> IF "overview" \in set THEN OldOverview ELSE None,
     themes |-> IF "themes" \in set THEN OldThemes ELSE None]

\* ---------------------------------------------------------- store gateway
\* supabase.table("titles").update({field: value}).eq("id", title_id).execute()
\* with every column reset but the written one: what a combined write would do.
TableUpdateCombined(st, title_id, field, value) ==
    [st EXCEPT ![title_id] = [kind |-> @.kind, popularity |-> @.popularity,
                              keywords |-> IF field = "keywords" THEN value ELSE None,
                              overview |-> IF field = "overview" THEN value ELSE None,
                              themes |-> IF field = "themes" THEN value ELSE None]]

\* supabase.table("titles").update({field: value}).eq("id", title_id).execute():
\* one column of the one row whose id matches.
TableUpdate(st, title_id, field, value) ==
    [st EXCEPT ![title_id][field] = value]

\* .is_(field, None): the ids of the rows whose field IS NULL.
Missing(st, field) == {id \in Ids : IsNone(st[id][field])}

\* .order("popularity", desc=True): every order of the ids with popularity
\* descending (the order among equal popularity is the store's choice).
Descending(st, seq) ==
    \A a, b \in 1..Len(seq) : a < b => st[seq[a]].popularity >= st[seq[b]].popularity

RECURSIVE Orderings(_, _)
Orderings(st, S) ==
    IF S = {} THEN { << >> }
    ELSE UNION { { << top >> \o rest : rest \in Orderings(st, S \ {top}) } :
                 top \in { a \in S : \A b \in S : st[a].popularity >= st[b].popularity } }

\* `if limit: query = query.limit(limit)`: None and 0 are both falsy.
Truthy(limit) == ~IsNone(limit) /\ Get(limit) # 0

\* The limit applied before the order (the first n rows in table order, then sorted).
ApplyLimitUnordered(st, field, limit) ==
    LET S == Missing(st, field)
        n == IF Truthy(limit) /\ Get(limit) < Cardinality(S) THEN Get(limit) ELSE Cardinality(S)
        firstN == {id \in S : Cardinality({j \in S : j < id}) < n}
    IN Orderings(st, firstN)

\* The request carries limit and order as parameters; the store sorts, then cuts.
ApplyLimit(st, field, limit) ==
    { IF Truthy(limit) THEN Take(seq, Get(limit)) ELSE seq : seq \in Orderings(st, Missing(st, field)) }

\* A selected row as the dict the loops read: id, kind, popularity and (for the
\* themes selection) the overview column as it was when selected.
RowDict(st, id) ==
    [id |-> id, kind |-> st[id].kind, popularity |-> st[id].popularity,
     overview |-> st[id].overview]

\* get_titles_missing_keywords / _overview / _themes: the possible results of
\* the query when it succeeds (ok) and [] when it raises.
SelectMissing(st, field, limit, ok) ==
    IF ok THEN { [k \in 1..Len(seq) |-> RowDict(st, seq[k])] : seq \in ApplyLimit(st, field, limit) }
    ELSE { << >> }

\* ------------------------------------------------------- external answers
\* What requests.get(...) and response.json() can give fetch_tmdb_keywords:
\* a RequestException (connection, timeout, raise_for_status), a body that is
\* not JSON, or a JSON object with or without the keys "keywords" / "results".
KwResponse(status, keywords, results) ==
    [status |-> status, keywords |-> keywords, results |-> results]

TwoKeywords == << "noir", "heist" >>

KwResponses ==
    { KwResponse("request_exception", None, None),
      KwResponse("bad_json", None, None),
      KwResponse("ok", Some(TwoKeywords), None),
      KwResponse("ok", None, Some(TwoKeywords)),
      KwResponse("ok", Some(<< >>), None),
      KwResponse("ok", None, Some(<< >>)),
      KwResponse("ok", None, None) }

\* data.get(key, []).
GetOrEmpty(o) == IF IsNone(o) THEN << >> ELSE Get(o)

\* fetch_tmdb_keywords: Optional[List[str]] from the answer of the API.
fetch_tmdb_keywords(resp, kind) ==
    IF resp.status # "ok" THEN None
    ELSE LET keywords == IF kind = "movie" THEN GetOrEmpty(resp.keywords)
                                           ELSE GetOrEmpty(resp.results)
         IN IF Len(keywords) > 0 THEN Some(keywords) ELSE None

\* What fetch_tmdb_overview can be given: as above, with the key "overview".
OvResponse(status, overview) == [status |-> status, overview |-> overview]

OvResponses ==
    { OvResponse("request_exception", None),
      OvResponse("bad_json", None),
      OvResponse("ok", Some(<< " ", "p", "l", "o", "t", " " >>)),
      OvResponse("ok", Some(<< " ", " " >>)),
      OvResponse("ok", None) }

\* data.get("overview", "").
GetOrBlank(o) == IF IsNone(o) THEN << >> ELSE Get(o)

\* The overview returned as received, without .strip().
fetch_tmdb_overview_unstripped(resp) ==
    IF resp.status # "ok" THEN None
    ELSE LET overview == GetOrBlank(resp.overview)
         IN IF Len(overview) > 0 THEN Some(overview) ELSE None

\* fetch_tmdb_overview: Optional[str] from the answer of the API.
fetch_tmdb_overview(resp) ==
    IF resp.status # "ok" THEN None
    ELSE LET overview == Strip(GetOrBlank(resp.overview))
         IN IF Len(overview) > 0 THEN Some(overview) ELSE None

\* What claude.messages.create can give: an exception, or a message whose first
\* content block holds a text.
ClResponse(status, text) == [status |-> status, text |-> text]

\* "a, xx": no candidate longer than 2.
TextNoValid == << "a", ",", " ", "x", "x" >>
\* " bbb ,cccc": two valid candidates.
TextTwoValid == << " ", "b", "b", "b", " ", ",", "c", "c", "c", "c" >>
\* "ddd,eee,fff,ggg,hhh,iii": six valid candidates.
TextSixValid ==
    << "d", "d", "d", ",", "e", "e", "e", ",", "f", "f", "f", ",",
       "g", "g", "g", ",", "h", "h", "h", ",", "i", "i", "i" >>

ClResponses ==
    { ClResponse("api_exception", << >>),
      ClResponse("ok", TextNoValid),
      ClResponse("ok", TextTwoValid),
      ClResponse("ok", TextSixValid) }

\* generate_themes_with_claude: Optional[List[str]]; claudeSet is `claude` not None.
generate_themes_with_claude(claudeSet, resp) ==
    IF ~claudeSet THEN None
    ELSE IF resp.status # "ok" THEN None
    ELSE ParseThemes(resp.text)

\* ------------------------------------------------------------------- state
VARIABLES
    env,            \* which of the four environment variables are set (os.getenv)
    script,         \* the file run or imported: "keywords" or "themes_overview"
    mode,           \* "main": main() runs; "import": a caller calls the functions
    pc,             \* "start", "loaded", "crashed", "menu", "loop", "returned", "exit"
    message,        \* the last error line main() printed before returning
    supabase,       \* module global: "unset", "ok" or "broken" (built without credentials)
    claude,         \* module global `claude` is not None
    store,          \* the titles table
    choice,         \* main(): the menu choice read from input()
    op,             \* the running backfill: "keywords", "overview", "themes" ("none" before)
    dry_run,        \* argument of the running backfill
    use_claude,     \* argument of backfill_themes
    limit,          \* argument of the selection that produced titles
    titles,         \* the batch: list of row dicts
    i,              \* 1-based index of the next record of the loop
    stats,          \* the statistics dictionary of the running backfill
    \* history variables (not read by any action's guard or effect on the program state)
    last,           \* what happened to the record processed last
    startStore,     \* the table when the batch was selected
    selOk,          \* the selection query did not raise
    updateCalls,    \* update_*_in_db calls of this run
    validCount,     \* records of this run whose enrichment gave a valid value
    apiCalls,       \* external enrichment calls of this run
    sleepsSince,    \* time.sleep calls since the last external call of this run
    lastGap,        \* sleeps between the two latest external calls of this run
    clientBuilt,    \* create_client has been called
    storeUsed,      \* a select or an update has been issued
    apiUsed,        \* an external API call has been issued
    oracle,         \* when oracle.fixed: the answer the upstream gives for each id
    prevRun,        \* under a fixed oracle: arguments and statistics of the previous run
    rawCands,       \* tag validation: the candidates the raw text was built from
    rawText,        \* tag validation: the raw model text
    parsed          \* tag validation: the value ParseThemes returned, once computed

vars ==
    << env, script, mode, pc, message, supabase, claude, store, choice, op, dry_run,
       use_claude, limit, titles, i, stats, last, startStore, selOk, updateCalls,
       validCount, apiCalls, sleepsSince, lastGap, clientBuilt, storeUsed, apiUsed,
       oracle, prevRun, rawCands, rawText, parsed >>

progVars ==
    << env, script, mode, supabase, claude, choice, clientBuilt, oracle >>

runVars ==
    << op, dry_run, use_claude, limit, titles, i, stats, last, startStore, selOk,
       updateCalls, validCount, apiCalls, sleepsSince, lastGap, prevRun >>

tagVars == << rawCands, rawText, parsed >>

\* ------------------------------------------------------------------- Init
Envs ==
    [TMDB_API_KEY : BOOLEAN, SUPABASE_URL : BOOLEAN, SUPABASE_KEY : BOOLEAN,
     ANTHROPIC_API_KEY : BOOLEAN]

FullEnv ==
    [TMDB_API_KEY |-> TRUE, SUPABASE_URL |-> TRUE, SUPABASE_KEY |-> TRUE,
     ANTHROPIC_API_KEY |-> TRUE]

\* The columns a script selects on or writes are NULL or set independently in
\* every row; the columns it never touches hold a fixed mixed pattern.
InitStores(scr) ==
    IF scr = "keywords"
    THEN { [id \in Ids |-> RowOf(id, pop,
              f[id] \cup (IF id % 2 = 1 THEN {"overview"} ELSE {"themes"}))] :
              pop \in PopTables, f \in [Ids -> SUBSET {"keywords"}] }
    ELSE { [id \in Ids |-> RowOf(id, PopA,
              f[id] \cup (IF id % 2 = 1 THEN {"keywords"} ELSE {}))] :
              f \in [Ids -> SUBSET {"overview", "themes"}] }

NoStats == [total |-> 0]
NoLast == [id |-> 0]
FreeOracle == [fixed |-> FALSE, op |-> "none", answers |-> << >>]
NoPrevRun == [set |-> FALSE]

InitRun ==
    /\ op = "none" /\ dry_run = FALSE /\ use_claude = FALSE /\ limit = None
    /\ titles = << >> /\ i = 1 /\ stats = NoStats /\ last = NoLast
    /\ startStore = store /\ selOk = TRUE
    /\ updateCalls = 0 /\ validCount = 0 /\ apiCalls = 0
    /\ sleepsSince = 0 /\ lastGap = None
    /\ prevRun = NoPrevRun

InitTagsIdle == rawCands = << >> /\ rawText = << >> /\ parsed = None

Init ==
    /\ env \in Envs
    /\ script \in {"keywords", "themes_overview"}
    /\ mode \in {"main", "import"}
    /\ pc = "start" /\ message = "" /\ supabase = "unset" /\ claude = FALSE
    /\ store \in InitStores(script)
    /\ choice = ""
    /\ clientBuilt = FALSE /\ storeUsed = FALSE /\ apiUsed = FALSE
    /\ oracle = FreeOracle
    /\ InitRun
    /\ InitTagsIdle

\* ------------------------------------------------------- module top level
\* load_dotenv(), os.getenv(...), create_client(SUPABASE_URL, SUPABASE_KEY) and,
\* in backfill_themes_overview.py, the conditional construction of `claude`.
\* create_client is an external library call: with a credential missing it
\* either raises (the process dies with a traceback) or yields a client whose
\* every request fails.
Load ==
    /\ pc = "start"
    /\ clientBuilt' = TRUE
    /\ \E raises \in BOOLEAN :
         IF env.SUPABASE_URL /\ env.SUPABASE_KEY
         THEN supabase' = "ok" /\ pc' = "loaded"
         ELSE IF raises THEN supabase' = "unset" /\ pc' = "crashed"
         ELSE supabase' = "broken" /\ pc' = "loaded"
    /\ claude' = (script = "themes_overview" /\ env.ANTHROPIC_API_KEY)
    /\ UNCHANGED << env, script, mode, message, store, choice, storeUsed, apiUsed,
                    oracle >>
    /\ UNCHANGED runVars
    /\ UNCHANGED tagVars

\* main(), "Validate configuration", the same in both files.
MainValidate ==
    /\ mode = "main" /\ pc = "loaded"
    /\ IF ~env.TMDB_API_KEY
       THEN message' = "TMDB_API_KEY not found" /\ pc' = "exit"
       ELSE IF ~env.SUPABASE_URL \/ ~env.SUPABASE_KEY
       THEN message' = "Supabase credentials not found" /\ pc' = "exit"
       ELSE message' = message /\ pc' = "menu"
    /\ UNCHANGED << store, storeUsed, apiUsed >>
    /\ UNCHANGED progVars
    /\ UNCHANGED runVars
    /\ UNCHANGED tagVars

\* ------------------------------------------------------- backfill functions
\* The statistics dictionary each backfill starts from.
InitStats(opx, batch) ==
    IF opx = "keywords"
    THEN [total |-> Len(batch), success |-> 0, no_keywords_found |-> 0,
          api_error |-> 0, db_error |-> 0]
    ELSE IF opx = "overview"
    THEN [total |-> Len(batch), success |-> 0, not_found |-> 0, error |-> 0]
    ELSE [total |-> Len(batch), success |-> 0, no_overview |-> 0, error |-> 0]

\* backfill_themes: `if not use_claude or not claude: return stats`.
ThemesUnavailable(opx, uc, claudeSet) == opx = "themes" /\ (~uc \/ ~claudeSet)

\* Entry of backfill_keywords_batch / backfill_overviews / backfill_themes on the
\* batch a selection returned: the statistics are initialised and the loop is
\* entered, unless the batch is empty or backfill_themes returns at once.
StartRun(opx, dry, uc, lim, batch, ok) ==
    /\ op' = opx /\ dry_run' = dry /\ use_claude' = uc /\ limit' = lim
    /\ titles' = batch /\ i' = 1
    /\ stats' = InitStats(opx, batch)
    /\ last' = NoLast /\ startStore' = store /\ selOk' = ok
    /\ updateCalls' = 0 /\ validCount' = 0 /\ apiCalls' = 0
    /\ sleepsSince' = 0 /\ lastGap' = None
    /\ pc' = IF Len(batch) = 0 \/ ThemesUnavailable(opx, uc, claude)
             THEN "returned" ELSE "loop"

\* stats[key] += 1, with the database failures left uncounted.
CountOutcomeDropDbError(st, key) ==
    IF key = "db_error" THEN st ELSE [st EXCEPT ![key] = @ + 1]

\* stats[key] += 1.
CountOutcome(st, key) == [st EXCEPT ![key] = @ + 1]

\* `if not dry_run:` guarding the update call, as if the guard were missing.
ShouldPersistAlways(dry) == TRUE

\* `if not dry_run:` guarding the update call.
ShouldPersist(dry) == ~dry

\* The for loop stopping at the first record that was not updated.
LoopNextBreakOnFailure(idx, n, key) ==
    IF idx + 1 > n \/ key # "success" THEN "returned" ELSE "loop"

\* for i, title in enumerate(titles, 1): the next record, or the return.
LoopNext(idx, n, key) == IF idx + 1 > n THEN "returned" ELSE "loop"

\* update_*_in_db reporting True whatever execute() did.
UpdateReturnsAlwaysTrue(dbOk) == TRUE

\* update_*_in_db: True when execute() returned, False when it raised.
UpdateReturns(dbOk) == dbOk

\* update_keywords_in_db / update_overview_in_db / update_themes_in_db: the table
\* after the call; execute() raising leaves the table as it was.
update_in_db(st, title_id, field, value, dbOk) ==
    IF dbOk THEN TableUpdate(st, title_id, field, Some(value)) ELSE st

\* execute() can raise on any call, and always does on a client built without
\* credentials.
DbResults == IF supabase = "ok" THEN BOOLEAN ELSE {FALSE}

\* The counter one record of backfill_keywords_batch increments.
keywords_outcome(keywords, persist, updated) ==
    IF IsNone(keywords) THEN "api_error"
    ELSE IF Len(Get(keywords)) = 0 THEN "no_keywords_found"
    ELSE IF persist THEN (IF updated THEN "success" ELSE "db_error")
    ELSE "success"

\* The counter one record of backfill_overviews increments.
overview_outcome(overview, persist, updated) ==
    IF IsNone(overview) THEN "error"
    ELSE IF Len(Get(overview)) = 0 THEN "not_found"
    ELSE IF persist THEN (IF updated THEN "success" ELSE "error")
    ELSE "success"

\* The counter one record of backfill_themes increments (`not overview` is true
\* of None and of the empty string).
themes_outcome(overview, themes, persist, updated) ==
    IF IsNone(overview) \/ Len(Get(overview)) = 0 THEN "no_overview"
    ELSE IF IsNone(themes) \/ Len(Get(themes)) = 0 THEN "error"
    ELSE IF persist THEN (IF updated THEN "success" ELSE "error")
    ELSE "success"

\* The answers the upstream can give for a record.
Answers(id, all, failure) ==
    IF oracle.fixed THEN {oracle.answers[id]}
    ELSE IF env.TMDB_API_KEY THEN all
    ELSE {failure}

\* The effect of one loop iteration, common to the three loops: `valid` is
\* "the enrichment gave a usable value" (the iteration reached the update
\* section and the time.sleep after it), `madeCall` is "an external call was made".
Iterate(title, resp, result, key, valid, madeCall, field, value, dbOk) ==
    LET called == valid /\ ShouldPersist(dry_run)
    IN /\ stats' = CountOutcome(stats, key)
       /\ store' = IF called THEN update_in_db(store, title.id, field, value, dbOk) ELSE store
       /\ i' = i + 1
       /\ pc' = LoopNext(i, Len(titles), key)
       /\ last' = [id |-> title.id, idx |-> i, resp |-> resp, result |-> result,
                   outcome |-> key, valid |-> valid, madeCall |-> madeCall,
                   updateCalled |-> called, dbOk |-> called /\ dbOk, slept |-> valid,
                   value |-> IF called THEN Some(value) ELSE None]
       /\ updateCalls' = updateCalls + (IF called THEN 1 ELSE 0)
       /\ validCount' = validCount + (IF valid THEN 1 ELSE 0)
       /\ apiCalls' = apiCalls + (IF madeCall THEN 1 ELSE 0)
       /\ lastGap' = IF madeCall /\ apiCalls > 0 THEN Some(sleepsSince) ELSE lastGap
       /\ sleepsSince' = (IF madeCall THEN 0 ELSE sleepsSince) + (IF valid THEN 1 ELSE 0)
       /\ storeUsed' = (storeUsed \/ called)
       /\ apiUsed' = (apiUsed \/ madeCall)
       /\ UNCHANGED << message, op, dry_run, use_claude, limit, titles, startStore,
                       selOk, prevRun >>
       /\ UNCHANGED progVars
       /\ UNCHANGED tagVars

\* One iteration of the loop of backfill_keywords_batch.
KeywordsStep ==
    /\ pc = "loop" /\ op = "keywords"
    /\ \E resp \in Answers(titles[i].id, KwResponses, KwResponse("request_exception", None, None)),
          dbOk \in DbResults :
         LET title == titles[i]
             keywords == fetch_tmdb_keywords(resp, title.kind)
             valid == ~IsNone(keywords) /\ Len(Get(keywords)) > 0
             persist == ShouldPersist(dry_run)
             key == keywords_outcome(keywords, persist, UpdateReturns(dbOk))
         IN Iterate(title, resp, keywords, key, valid, TRUE, "keywords",
                    IF valid THEN Get(keywords) ELSE << >>, dbOk)

\* One iteration of the loop of backfill_overviews.
OverviewStep ==
    /\ pc = "loop" /\ op = "overview"
    /\ \E resp \in Answers(titles[i].id, OvResponses, OvResponse("request_exception", None)),
          dbOk \in DbResults :
         LET title == titles[i]
             overview == fetch_tmdb_overview(resp)
             valid == ~IsNone(overview) /\ Len(Get(overview)) > 0
             persist == ShouldPersist(dry_run)
             key == overview_outcome(overview, persist, UpdateReturns(dbOk))
         IN Iterate(title, resp, overview, key, valid, TRUE, "overview",
                    IF valid THEN Get(overview) ELSE << >>, dbOk)

\* One iteration of the loop of backfill_themes; a record without overview makes
\* no call to the model.
NotCalled == ClResponse("not_called", << >>)

ThemesStep ==
    /\ pc = "loop" /\ op = "themes"
    /\ \E resp \in IF IsNone(titles[i].overview) \/ Len(Get(titles[i].overview)) = 0
                   THEN {NotCalled}
                   ELSE IF oracle.fixed THEN {oracle.answers[titles[i].id]} ELSE ClResponses,
          dbOk \in DbResults :
         LET title == titles[i]
             madeCall == resp # NotCalled
             themes == IF madeCall THEN generate_themes_with_claude(claude, resp) ELSE None
             valid == ~IsNone(themes) /\ Len(Get(themes)) > 0
             persist == ShouldPersist(dry_run)
             key == themes_outcome(title.overview, themes, persist, UpdateReturns(dbOk))
         IN Iterate(title, resp, themes, key, valid, madeCall, "themes",
                    IF valid THEN Get(themes) ELSE << >>, dbOk)

\* ----------------------------------------------------------------- main()
\* The selection query can raise on any call, and always does on a client
\* built without credentials.
SelectResults == IF supabase = "ok" THEN BOOLEAN ELSE {FALSE}

\* main() returning without a backfill: nothing of the run state changes.
ExitWith(text) ==
    /\ pc' = "exit" /\ message' = text
    /\ UNCHANGED runVars

\* main() of backfill_keywords.py from the menu to the call of
\* backfill_keywords_batch: choice, confirmation, selection, empty check.
MainKeywordsMenu ==
    /\ mode = "main" /\ script = "keywords" /\ pc = "menu"
    /\ \E c \in {"1", "2", "3", "4", "x"}, confirm \in {"y", "n"}, ok \in SelectResults :
         /\ choice' = c
         /\ IF c = "x" THEN ExitWith("Invalid choice. Exiting.") /\ storeUsed' = storeUsed
            ELSE IF c = "4" /\ confirm # "y" THEN ExitWith("Cancelled.") /\ storeUsed' = storeUsed
            ELSE LET lim == IF c = "1" THEN Some(LimitChoice1)
                            ELSE IF c = "2" THEN Some(LimitChoice2)
                            ELSE IF c = "3" THEN Some(LimitChoice3)
                            ELSE None
                 IN /\ storeUsed' = TRUE
                    /\ \E batch \in SelectMissing(store, "keywords", lim, ok) :
                         IF Len(batch) = 0
                         THEN ExitWith("No titles missing keywords! Database is clean.")
                         ELSE /\ StartRun("keywords", c = "1", TRUE, lim, batch, ok)
                              /\ message' = message /\ prevRun' = prevRun
    /\ UNCHANGED << env, script, mode, supabase, claude, store, clientBuilt, apiUsed,
                    oracle >>
    /\ UNCHANGED tagVars

\* Lines 352-360 of main() of backfill_themes_overview.py: step 2 of choice 3.
ThemesAfterOverviews(ok) ==
    IF env.ANTHROPIC_API_KEY
    THEN /\ storeUsed' = TRUE
         /\ \E batch \in SelectMissing(store, "themes", None, ok) :
              IF Len(batch) = 0
              THEN ExitWith(message)
              ELSE /\ StartRun("themes", dry_run, TRUE, None, batch, ok)
                   /\ message' = message /\ prevRun' = prevRun
    ELSE /\ ExitWith("Skipping theme generation - ANTHROPIC_API_KEY not found")
         /\ storeUsed' = storeUsed

\* main() of backfill_themes_overview.py from the menu to the first backfill call.
MainThemesMenu ==
    /\ mode = "main" /\ script = "themes_overview" /\ pc = "menu"
    /\ \E c \in {"1", "2", "3", "x"}, dry \in BOOLEAN, ok \in SelectResults :
         /\ choice' = c
         /\ IF c = "x" THEN ExitWith("Invalid choice. Exiting.") /\ storeUsed' = storeUsed
            ELSE IF c = "2" /\ ~env.ANTHROPIC_API_KEY
            THEN ExitWith("ANTHROPIC_API_KEY not found in .env") /\ storeUsed' = storeUsed
            ELSE LET field == IF c = "2" THEN "themes" ELSE "overview"
                 IN /\ storeUsed' = TRUE
                    /\ \E batch \in SelectMissing(store, field, None, ok) :
                         IF Len(batch) = 0
                         THEN /\ pc' = IF c = "3" THEN "step2" ELSE "exit"
                              /\ message' = message
                              /\ dry_run' = dry
                              /\ UNCHANGED << op, use_claude, limit, titles, i, stats, last,
                                              startStore, selOk, updateCalls, validCount,
                                              apiCalls, sleepsSince, lastGap, prevRun >>
                         ELSE /\ StartRun(field, dry, TRUE, None, batch, ok)
                              /\ message' = message /\ prevRun' = prevRun
    /\ UNCHANGED << env, script, mode, supabase, claude, store, clientBuilt, apiUsed,
                    oracle >>
    /\ UNCHANGED tagVars

\* Choice 3 after step 1: the themes selection and backfill_themes.
MainThemesStep2 ==
    /\ mode = "main" /\ script = "themes_overview" /\ choice = "3"
    /\ pc = "step2" \/ (pc = "returned" /\ op = "overview")
    /\ \E ok \in SelectResults : ThemesAfterOverviews(ok)
    /\ UNCHANGED << store, apiUsed >>
    /\ UNCHANGED progVars
    /\ UNCHANGED tagVars

\* main() after its last backfill returned: print_stats, the reminder, return.
MainFinish ==
    /\ mode = "main" /\ pc = "returned"
    /\ ~(script = "themes_overview" /\ choice = "3" /\ op = "overview")
    /\ pc' = "exit"
    /\ UNCHANGED << message, store, storeUsed, apiUsed >>
    /\ UNCHANGED progVars
    /\ UNCHANGED runVars
    /\ UNCHANGED tagVars

\* ------------------------------------------------------ importing caller
\* The limits a caller passes to get_titles_missing_*(limit).
Limits == {None} \cup { Some(n) : n \in 0..(NumTitles - 1) }

OpsOf(scr) == IF scr = "keywords" THEN {"keywords"} ELSE {"overview", "themes"}

\* A caller that imported the module selects a batch with
\* get_titles_missing_<field>(limit) and passes it to the backfill function.
\* Under a fixed oracle the caller makes the backfill the oracle is for, and
\* makes a second call after the first returned.
ImportCall ==
    /\ mode = "import"
    /\ pc = "loaded" \/ (pc = "returned" /\ oracle.fixed /\ ~prevRun.set)
    /\ \E opx \in OpsOf(script), dry \in BOOLEAN, uc \in BOOLEAN, lim \in Limits,
          ok \in SelectResults :
         /\ opx # "themes" => uc
         /\ oracle.fixed => opx = oracle.op
         /\ \E batch \in SelectMissing(store, opx, lim, ok) :
              StartRun(opx, dry, uc, lim, batch, ok)
    /\ prevRun' = IF pc = "returned"
                  THEN [set |-> TRUE, op |-> op, dry |-> dry_run, uc |-> use_claude,
                        limit |-> limit, store |-> startStore, selOk |-> selOk,
                        titles |-> titles, stats |-> stats]
                  ELSE NoPrevRun
    /\ storeUsed' = TRUE
    /\ UNCHANGED << env, script, mode, message, supabase, claude, store, choice,
                    clientBuilt, apiUsed, oracle >>
    /\ UNCHANGED tagVars

Next ==
    \/ Load
    \/ MainValidate
    \/ MainKeywordsMenu
    \/ MainThemesMenu
    \/ MainThemesStep2
    \/ MainFinish
    \/ ImportCall
    \/ KeywordsStep
    \/ OverviewStep
    \/ ThemesStep

Spec == Init /\ [][Next]_vars

\* ------------------------------------------- repeated dry runs, fixed upstream
\* The upstream gives every id one fixed answer for the whole process, and the
\* importing caller makes the same dry-run call twice.
FixedOracles(scr) ==
    { [fixed |-> TRUE, op |-> "keywords", answers |-> a] :
        a \in IF scr = "keywords" THEN [Ids -> KwResponses] ELSE {} }
    \cup { [fixed |-> TRUE, op |-> "overview", answers |-> a] :
        a \in IF scr = "themes_overview" THEN [Ids -> OvResponses] ELSE {} }
    \cup { [fixed |-> TRUE, op |-> "themes", answers |-> a] :
        a \in IF scr = "themes_overview" THEN [Ids -> ClResponses] ELSE {} }

\* A dry run reads the table only through its selection: every row misses the
\* field of the backfill the oracle is for (the limit cuts the batch), and for
\* the themes backfill each row has an overview or not.
DryStores(scr, opx) ==
    { st \in InitStores(scr) :
        \A id \in Ids :
          /\ IsNone(st[id][opx])
          /\ opx = "overview" => IsNone(st[id].themes) }

InitDry ==
    /\ env = FullEnv
    /\ script \in {"keywords", "themes_overview"}
    /\ mode = "import"
    /\ pc = "start" /\ message = "" /\ supabase = "unset" /\ claude = FALSE
    /\ oracle \in FixedOracles(script)
    /\ store \in DryStores(script, oracle.op)
    /\ choice = ""
    /\ clientBuilt = FALSE /\ storeUsed = FALSE /\ apiUsed = FALSE
    /\ InitRun
    /\ InitTagsIdle

\* The call of ImportCall with dry_run=True, repeated with the same arguments.
DryCall ==
    /\ oracle.fixed
    /\ ImportCall
    /\ dry_run'
    /\ selOk'
    /\ pc = "returned" => (limit' = limit /\ use_claude' = use_claude)

NextDry ==
    \/ Load
    \/ DryCall
    \/ KeywordsStep
    \/ OverviewStep
    \/ ThemesStep

SpecDry == InitDry /\ [][NextDry]_vars

\* ------------------------------------------------------------ tag validation
\* The raw texts generate_themes_with_claude is checked on: up to MaxCands
\* comma-separated candidates, each of one shape; at most one of them long.
\*   "blank"  " "            trims to the empty string
\*   "two"    " LL "         trims to 2 characters
\*   "three"  " L L"         trims to 3 characters (the inner blank stays)
\*   "l49", "l50", "l51"     49, 50 and 51 characters, the last two padded
\* L is the letter of the candidate's position, so the order shows in the result.
Letters == << "a", "b", "c", "d", "e", "f", "g", "h", "i", "j" >>
ShortShapes == {"blank", "two", "three"}
LongShapes == {"l49", "l50", "l51"}

CandLists ==
    UNION { { c \in [1..k -> ShortShapes \cup LongShapes] :
                Cardinality({p \in 1..k : c[p] \in LongShapes}) <= 1 } : k \in 1..MaxCands }

\* The candidate as it stands in the raw text.
Written(shape, p) ==
    LET L == Letters[p]
    IN CASE shape = "blank" -> << " " >>
         [] shape = "two" -> << " ", L, L, " " >>
         [] shape = "three" -> << " ", L, " ", L >>
         [] shape = "l49" -> Rep(L, MaxThemeLen - 1)
         [] shape = "l50" -> Rep(L, MaxThemeLen) \o << " " >>
         [] OTHER -> << " ", " " >> \o Rep(L, MaxThemeLen + 1)

RECURSIVE JoinFrom(_, _)
JoinFrom(c, p) ==
    IF p > Len(c) THEN << >>
    ELSE (IF p > 1 THEN << "," >> ELSE << >>) \o Written(c[p], p) \o JoinFrom(c, p + 1)

\* 'a, revenge, redemption, xx, ' followed by a tag longer than 50 characters.
ExampleCands == << "example" >>
ExampleText ==
    << "a", ",", " ", "r", "e", "v", "e", "n", "g", "e", ",", " ",
       "r", "e", "d", "e", "m", "p", "t", "i", "o", "n", ",", " ", "x", "x", ",", " " >>
    \o Rep("z", MaxThemeLen + 1)

TextOf(c) == IF c = ExampleCands THEN ExampleText ELSE JoinFrom(c, 1)

InitTags ==
    /\ rawCands \in CandLists \cup {ExampleCands}
    /\ rawText = TextOf(rawCands)
    /\ parsed = None
    /\ pc = "tags"
    /\ env = FullEnv /\ script = "themes_overview" /\ mode = "import"
    /\ message = "" /\ supabase = "ok" /\ claude = TRUE
    /\ store \in { st \in InitStores("themes_overview") : \A id \in Ids : IsNone(st[id].themes) /\ IsNone(st[id].overview) }
    /\ choice = ""
    /\ clientBuilt = TRUE /\ storeUsed = FALSE /\ apiUsed = FALSE
    /\ oracle = FreeOracle
    /\ InitRun

\* generate_themes_with_claude called with a configured client whose message
\* carries rawText.
CallGenerateThemes ==
    /\ pc = "tags"
    /\ parsed' = generate_themes_with_claude(claude, ClResponse("ok", rawText))
    /\ pc' = "tags_done"
    /\ apiUsed' = TRUE
    /\ UNCHANGED << message, store, storeUsed, rawCands, rawText >>
    /\ UNCHANGED progVars
    /\ UNCHANGED runVars

NextTags == CallGenerateThemes

SpecTags == InitTags /\ [][NextTags]_vars

\* ================================================================== claims
\* Sum of the outcome counters of a statistics dictionary (every key but total).
RECURSIVE SumKeys(_, _)
SumKeys(st, keys) ==
    IF keys = {} THEN 0
    ELSE LET k == CHOOSE x \in keys : TRUE
         IN st[k] + SumKeys(st, keys \ {k})

OutcomeSum(st) == SumKeys(st, DOMAIN st \ {"total"})

\* A backfill function has been called and has returned.
Returned == op # "none" /\ pc \in {"returned", "exit"}

\* C1 (as stated): on return of every backfill run the outcome counters sum to
\* stats['total'] = len(B), also when the enrichment-model client is not configured.
C1_SumEqualsTotalAlways ==
    Returned => (stats.total = Len(titles) /\ OutcomeSum(stats) = stats.total)

\* C1 (amended): every record the loop has processed received exactly one outcome
\* (the counters sum to the number of processed records), and on return the
\* counters sum to stats['total'] = len(B) unless backfill_themes returned at
\* once because use_claude is false or the client is not configured: then
\* total = len(B) and every outcome counter is 0.
C1_SumEqualsTotal ==
    /\ pc = "loop" => (stats.total = Len(titles) /\ OutcomeSum(stats) = i - 1)
    /\ Returned =>
         /\ stats.total = Len(titles)
         /\ OutcomeSum(stats) =
              (IF ThemesUnavailable(op, use_claude, claude) THEN 0 ELSE Len(titles))

\* C1 witness: a keywords run over three records returned with a mix of outcomes.
C1_Witness ==
    /\ pc = "returned" /\ op = "keywords" /\ Len(titles) >= 3
    /\ stats.success >= 1 /\ stats.api_error >= 1 /\ stats.db_error >= 1

\* C2: in a dry run no store update function is called, the store stays as it
\* was when the batch was selected, every record whose enrichment gave a valid
\* value is counted as success, and a second dry run of the same backfill over
\* the same batch, store and upstream answers returns the same statistics.
C2_DryRun ==
    (op # "none" /\ dry_run) =>
        /\ updateCalls = 0
        /\ store = startStore
        /\ stats.success = validCount
        /\ (/\ pc = "returned" /\ prevRun.set /\ prevRun.dry
            /\ prevRun.op = op /\ prevRun.uc = use_claude /\ prevRun.titles = titles
            /\ prevRun.store = startStore)
           => stats = prevRun.stats

\* C2 witness: the second of two dry runs returned, with some but not all of at
\* least two records counted as success.
C2_Witness ==
    /\ pc = "returned" /\ prevRun.set /\ prevRun.dry /\ dry_run
    /\ prevRun.op = op /\ prevRun.titles = titles /\ prevRun.store = startStore
    /\ Len(titles) >= 2 /\ stats.success >= 1 /\ stats.success < stats.total

\* The counter the code gives a record, from that record's own inputs alone.
OwnOutcome(opx, title, resp, dry, dbOk) ==
    IF opx = "keywords"
    THEN keywords_outcome(fetch_tmdb_keywords(resp, title.kind), ~dry, dbOk)
    ELSE IF opx = "overview"
    THEN overview_outcome(fetch_tmdb_overview(resp), ~dry, dbOk)
    ELSE themes_outcome(title.overview,
                        IF resp = NotCalled THEN None
                        ELSE generate_themes_with_claude(claude, resp), ~dry, dbOk)

\* C3: a record whose enrichment call or store update fails never aborts the
\* batch: a run that entered its loop returns only after the last record, the
\* records are processed in batch order, and the outcome of each is the one its
\* own answers give, whatever happened to the earlier records.
C3_Isolation ==
    /\ (Returned /\ ~ThemesUnavailable(op, use_claude, claude)) => i = Len(titles) + 1
    /\ pc = "loop" => i <= Len(titles)
    /\ last.id # 0 =>
         /\ last.idx = i - 1
         /\ last.id = titles[last.idx].id
         /\ last.outcome = OwnOutcome(op, titles[last.idx], last.resp, dry_run, last.dbOk)

\* C3 witness: a keywords run returned in which an enrichment call and a store
\* update failed and the last record was still processed and updated.
C3_Witness ==
    /\ pc = "returned" /\ op = "keywords" /\ Len(titles) >= 3
    /\ stats.api_error >= 1 /\ stats.db_error >= 1
    /\ last.idx = Len(titles) /\ last.outcome = "success"

\* The external call of the last record succeeded (no exception, JSON parsed).
LastCallSucceeded == last.resp.status = "ok"

\* The external call of the last record succeeded with an empty result.
LastCallEmpty ==
    /\ LastCallSucceeded
    /\ IF op = "keywords"
       THEN Len(GetOrEmpty(IF titles[last.idx].kind = "movie" THEN last.resp.keywords
                                                              ELSE last.resp.results)) = 0
       ELSE Len(Strip(GetOrBlank(last.resp.overview))) = 0

\* C4 (as stated): a record whose external call succeeds with an empty result is
\* counted as upstream-empty (no_keywords_found / not_found), and as
\* upstream-error (api_error / error) only when the call itself fails.
C4_EmptyIsNotError ==
    (last.id # 0 /\ op \in {"keywords", "overview"}) =>
        /\ LastCallEmpty =>
             last.outcome = (IF op = "keywords" THEN "no_keywords_found" ELSE "not_found")
        /\ (last.outcome \in {"api_error", "error"} /\ ~last.updateCalled)
             => ~LastCallSucceeded

\* C5 (as stated): pacing is uniform: whatever the outcome of a record, between
\* any two consecutive external enrichment calls of one run there is exactly
\* one pacing sleep.
C5_UniformPacing == ~IsNone(lastGap) => Get(lastGap) = 1

\* The candidate of a shape, trimmed.
TrimmedOf(shape, p) ==
    LET L == Letters[p]
    IN CASE shape = "blank" -> << >>
         [] shape = "two" -> << L, L >>
         [] shape = "three" -> << L, " ", L >>
         [] shape = "l49" -> Rep(L, 49)
         [] shape = "l50" -> Rep(L, 50)
         [] OTHER -> Rep(L, 51)

StrictlyBetween2And50(t) == Len(t) > 2 /\ Len(t) < 50

\* The first at most 5 accepted candidates of a candidate list, in their order;
\* None when none is accepted.
ExpectedThemes(c) ==
    IF c = ExampleCands
    THEN Some(<< << "r", "e", "v", "e", "n", "g", "e" >>,
                 << "r", "e", "d", "e", "m", "p", "t", "i", "o", "n" >> >>)
    ELSE LET accepted == SelectSeq([p \in 1..Len(c) |-> TrimmedOf(c[p], p)],
                                   StrictlyBetween2And50)
         IN IF Len(accepted) = 0 THEN None
            ELSE Some(SubSeq(accepted, 1, IF Len(accepted) > 5 THEN 5 ELSE Len(accepted)))

FilledOfBatch == {k \in 1..Len(titles) : ~IsNone(store[titles[k].id][op])}

\* C7: in a non-dry run every record is attempted at most once, and a record of
\* the batch has its backfilled field non-null iff its outcome was updated; so
\* the next selection by "field IS NULL" contains the records that were not
\* updated and none that was.
C7_NullIffNotUpdated ==
    (op # "none" /\ ~dry_run) =>
        /\ apiCalls <= i - 1 /\ updateCalls <= apiCalls
        /\ Cardinality(FilledOfBatch) = stats.success
        /\ \A k \in 1..Len(titles) : k >= i => IsNone(store[titles[k].id][op])
        /\ last.id # 0 =>
             /\ ~IsNone(store[last.id][op]) <=> (last.outcome = "success")
             /\ \A next \in SelectMissing(store, op, None, TRUE) :
                  (\E k \in 1..Len(next) : next[k].id = last.id)
                      <=> (last.outcome # "success")

\* C7 witness: a non-dry keywords run returned with updated records, records
\* whose enrichment failed and records whose store update failed.
C7_Witness ==
    /\ pc = "returned" /\ op = "keywords" /\ ~dry_run
    /\ stats.success >= 1 /\ stats.api_error >= 1 /\ stats.db_error >= 1

\* A credential the script requires is absent.
CredentialAbsent ==
    \/ ~env.TMDB_API_KEY \/ ~env.SUPABASE_URL \/ ~env.SUPABASE_KEY
    \/ (script = "themes_overview" /\ choice = "2" /\ ~env.ANTHROPIC_API_KEY)

\* C8 (as stated): when a required credential is absent the script stops with
\* a message before any store client is constructed or used, before any store
\* select or update and before any external API call.
C8_ConfigErrorsFirst ==
    (mode = "main" /\ CredentialAbsent) =>
        /\ ~clientBuilt /\ ~storeUsed /\ ~apiUsed
        /\ pc \in {"start", "loaded", "menu", "exit"}
        /\ pc = "exit" => message # ""

\* C9: a step of a run changes at most one enrichment field, of the record
\* being processed, the field the run backfills, to a non-null value; kind and
\* popularity never change, and no non-null enrichment field becomes null.
C9_FieldIndependence ==
    [][ \A id \in Ids :
          /\ store'[id].kind = store[id].kind
          /\ store'[id].popularity = store[id].popularity
          /\ \A f \in Fields :
               /\ store'[id][f] # store[id][f] =>
                    (pc = "loop" /\ id = titles[i].id /\ f = op /\ ~IsNone(store'[id][f]))
               /\ ~IsNone(store[id][f]) => ~IsNone(store'[id][f]) ]_vars

\* C9 witness: main()'s choice 3 wrote the overview and then the themes of one
\* record that already had keywords.
C9_Witness ==
    /\ mode = "main" /\ choice = "3" /\ op = "themes" /\ ~dry_run
    /\ \E id \in Ids :
         /\ ~IsNone(store[id].keywords)
         /\ ~IsNone(store[id].overview) /\ store[id].overview # OldOverview
         /\ ~IsNone(store[id].themes) /\ store[id].themes # OldThemes

\* The popularity of the batch never increases along it.
BatchDescending ==
    \A a, b \in 1..Len(titles) : a < b => titles[a].popularity >= titles[b].popularity

\* The batch holds n distinct records missing the field, none of lower
\* popularity than a missing record left out.
BatchIsTop(n) ==
    LET M == Missing(startStore, op)
        chosen == {titles[k].id : k \in 1..Len(titles)}
    IN /\ Len(titles) = (IF n < Cardinality(M) THEN n ELSE Cardinality(M))
       /\ Cardinality(chosen) = Len(titles)
       /\ chosen \subseteq M
       /\ \A m \in M \ chosen : \A k \in 1..Len(titles) :
            titles[k].popularity >= startStore[m].popularity

\* The run takes the records in batch order: the processed ones are a prefix.
ProcessedInOrder ==
    /\ last.id # 0 => (last.idx = i - 1 /\ last.id = titles[last.idx].id)
    /\ \A a, b \in 1..Len(titles) :
         (a < i /\ b >= i) => titles[a].popularity >= titles[b].popularity

Usable(field, v) ==
    IF field = "keywords" THEN Len(v) >= 1
    ELSE IF field = "overview"
    THEN Len(v) >= 1 /\ v[1] # " " /\ v[Len(v)] # " "
    ELSE Len(v) >= 1 /\ Len(v) <= 5

\* The record processed last has no overview in the selected batch.
LastHasNoOverview ==
    IsNone(titles[last.idx].overview) \/ Len(Get(titles[last.idx].overview)) = 0

\* C11: a backfill run never writes an empty or absent value: the value handed
\* to the store update for the record processed last is usable data for the
\* field of the run (whether or not the update succeeded), every field of the
\* table that the run changed holds usable data, and in backfill_themes a
\* record with no overview is counted no_overview with no model call and no
\* store update.
C11_MarkerSoundness ==
    (op # "none" /\ last.id # 0) =>
        /\ last.updateCalled =>
             /\ ~IsNone(last.value)
             /\ Usable(op, Get(last.value))
        /\ \A id \in Ids : \A f \in Fields :
             store[id][f] # startStore[id][f] =>
               /\ f = op
               /\ ~IsNone(store[id][f])
               /\ Usable(f, Get(store[id][f]))
        /\ (op = "themes" /\ LastHasNoOverview) =>
             /\ last.outcome = "no_overview"
             /\ ~last.madeCall
             /\ ~last.updateCalled

\* C11 witness: a themes run returned after counting a record without overview
\* as no_overview and then writing the five tags kept from a six-tag answer
\* into a field that was NULL.
C11_Witness ==
    /\ op = "themes" /\ pc = "returned" /\ last.id # 0
    /\ stats.no_overview >= 1
    /\ last.updateCalled /\ last.dbOk
    /\ IsNone(startStore[last.id].themes)
    /\ ~IsNone(store[last.id].themes)
    /\ Len(Get(store[last.id].themes)) = MaxThemes
    /\ store[last.id].themes = last.value

====
